---- MODULE Spec2Model ----
(***************************************************************************)
(* Model of ElectronGoogleOAuth2 (src/src/index.ts): the coordinator that  *)
(* opens the browser, owns one LoopbackRedirectServer, parses the captured *)
(* redirect and exchanges the authorization code for tokens.               *)
(*                                                                         *)
(* One attempt = one call of getAuthorizationCode / openAuthWindowAndGet-  *)
(* Tokens.  An attempt creates at most one listener, so a listener is      *)
(* named by the attempt that created it; 0 stands for null.                *)
(* LoopbackRedirectServer.ts is not part of the sources at hand; its three *)
(* operations (construct, waitForRedirection, close) follow spec.md 4.1.   *)
(***************************************************************************)
EXTENDS Integers, Sequences, FiniteSets, TLC

\* ---------------------------------------------------------------- bounds
MaxAttempts == 3
MaxQueryLen == 2
MaxScopes == 2
MaxSideFlows == 2
MaxRefresh == 1
MaxSetCalls == 1

\* ------------------------------------------------------------- constants
DefaultPort == 42813

Attempts == 1..MaxAttempts
Null == 0

Keys == {"error", "error_description", "code", "state"}
Vals == {"", "v1", "v2"}
Pairs == {<<k, v>> : k \in Keys, v \in Vals}

RECURSIVE SeqsUpTo(_, _)
SeqsUpTo(S, n) ==
  IF n = 0 THEN {<<>>}
  ELSE LET shorter == SeqsUpTo(S, n - 1)
       IN shorter \cup {Append(s, x) : s \in {t \in shorter : Len(t) = n - 1}, x \in S}

\* every query string of at most MaxQueryLen parameters
Queries == SeqsUpTo(Pairs, MaxQueryLen)

\* the redirects the provider is let to send in the flow model
FlowQueries ==
  { <<>>,
    << <<"code", "v1">> >>,
    << <<"error", "v1">> >>,
    << <<"error", "v1">>, <<"error_description", "v2">> >> }

Bundles == {"t1", "t2"}
ExchangeErrors == {"e1", "e2"}
NoCredentials == "none"

Modes == {"code", "tokens"}

VARIABLES
  callerScopes, \* the scopes argument of the constructor
  override,     \* the options argument of the constructor
  scopes,       \* this.scopes
  redirectUri,  \* the redirect URI the OAuth2Client was constructed with
  generated,    \* argument and result of the last generateAuthUrl call
  refreshed,    \* bundles of the client's 'tokens' events outside any attempt
  relayed,      \* bundles of the 'tokens' events re-emitted for them
  setCalls,     \* setTokens calls: the bundle given, the credentials read after
  options,      \* this.options
  server,       \* this.server: Null or the listener it refers to
  credentials,  \* this.oauth2Client.credentials
  started,      \* number of attempts started so far
  pc,           \* attempt -> position in its async function
  mode,         \* attempt -> entry point: "code" (getAuthorizationCode) or
                \* "tokens" (openAuthWindowAndGetTokens); the two run the same
                \* code until the authorization code is returned, so the
                \* entry point is recorded there ("unset" before)
  target,       \* attempt -> the listener whose close() it awaited (Null if none)
  outcome,      \* attempt -> how its promise settled
  exchanged,    \* attempt -> sequence of codes passed to getToken
  published,    \* attempt -> sequence of bundles emitted as 'tokens' for it
  returned,     \* attempt -> sequence of results getToken gave it
  credSet,      \* attempt -> sequence of bundles it passed to setCredentials
  settles,      \* attempt -> number of times its promise was settled
  opened,       \* attempt -> number of shell.openExternal calls it made
  refocused,    \* attempt -> number of refocus requests it made
  lst,          \* listener -> "none" | "listening" | "closing" | "closed"
  lport,        \* listener -> the port it is (or was) bound to, 0 if never bound
  wait,         \* listener -> state of its waitForRedirection promise
  xq,           \* input of the extraction check
  xout          \* result of the extraction check

vars == << callerScopes, override, scopes, redirectUri, generated, refreshed,
           relayed, setCalls,
           options, server, credentials, started, pc, mode, target, outcome,
           exchanged, returned, published, credSet, settles, opened, refocused,
           lst, lport, wait, xq, xout >>

configVars == << callerScopes, override, scopes, redirectUri, options >>
clientVars == << callerScopes, override, scopes, redirectUri, generated,
                refreshed, relayed, setCalls >>

coordVars == << clientVars, options, server, credentials, started, pc, mode, target, outcome,
                exchanged, returned, published, credSet, settles, opened,
                refocused >>
listenerVars == << lst, lport, wait >>

\* ------------------------------------------------ values of the promises
NoOutcome == [kind |-> "none", type |-> "none", val |-> <<>>]

\* new Error(message) thrown by index.ts itself
ThrownError(kind, message) == [kind |-> kind, type |-> "Error", val |-> message]

\* -------------------------------------------- redirect parsing (138-151)
\* url.parse(u, true).query[k]: the values of parameter k in order of
\* appearance; <<>> is undefined, <<v>> the string v, a longer sequence the
\* array querystring builds for a repeated parameter.
RECURSIVE ParamValues(_, _)
ParamValues(q, k) ==
  IF q = <<>> THEN <<>>
  ELSE IF Head(q)[1] = k
       THEN <<Head(q)[2]>> \o ParamValues(Tail(q), k)
       ELSE ParamValues(Tail(q), k)

\* JavaScript truthiness of a parsed parameter: undefined and "" are falsy,
\* a non-empty string and any array are truthy.
Truthy(vs) == Len(vs) >= 2 \/ (Len(vs) = 1 /\ vs[1] # "")

\* message of new Error(x): "" for undefined, else String(x); an array is
\* kept as the sequence of the parts that String() joins with commas.
ErrorMessage(vs) == IF vs = <<>> THEN <<"">> ELSE vs

\* lines 139-140: the reason given to the Error thrown for an error redirect
DeniedReason(q) == ErrorMessage(ParamValues(q, "error_description"))

\* lines 138-151 without the refocus: what the captured redirect turns into
ExtractCodeFirst(q) ==
  IF Truthy(ParamValues(q, "code"))
  THEN [kind |-> "Code", type |-> "value", val |-> ParamValues(q, "code")]
  ELSE IF Truthy(ParamValues(q, "error"))
       THEN ThrownError("Denied", DeniedReason(q))
       ELSE ThrownError("Malformed", <<"Unknown">>)
Extract(q) ==
  IF Truthy(ParamValues(q, "error"))
  THEN ThrownError("Denied", DeniedReason(q))
  ELSE IF ~Truthy(ParamValues(q, "code"))
       THEN ThrownError("Malformed", <<"Unknown">>)
       ELSE [kind |-> "Code", type |-> "value", val |-> ParamValues(q, "code")]

\* ------------------------------------ LoopbackRedirectServer (spec.md 4.1)
NoWait == [st |-> "none", val |-> <<>>]
PendingWait == [st |-> "pending", val |-> <<>>]
ResolvedWait(q) == [st |-> "resolved", val |-> q]
CanceledWait == [st |-> "rejected", val |-> <<>>]

Alive(l) == lst[l] \in {"listening", "closing"}

\* a port is free when neither another process (extBusy) nor a live
\* listener holds it
PortFree(p, extBusy) ==
  /\ ~extBusy
  /\ \A l \in Attempts : ~(Alive(l) /\ lport[l] = p)

\* start fails fast when the port is taken
PortUnavailable == [kind |-> "PortUnavailable", type |-> "PortUnavailable", val |-> <<>>]

\* close(): begins releasing the socket of a listening session; on any
\* other session there is nothing left to release
CloseCalled(l) == [lst EXCEPT ![l] = IF @ = "listening" THEN "closing" ELSE @]

\* the promise of close() resolves once the socket is released
CloseResolved(l) == lst[l] \notin {"listening", "closing"}

\* the rejection a pending wait gets when its session is closed
Canceled == [kind |-> "UserCanceled", type |-> "Canceled", val |-> <<>>]

\* -------------------------------------------------- ElectronGoogleOAuth2
\* lines 31-36
defaultElectronGoogleOAuth2Options ==
  [successRedirectURL |-> "https://getstation.com/app-login-success/",
   loopbackInterfaceRedirectionPort |-> DefaultPort,
   refocusAfterSuccess |-> TRUE]

OptionKeys == DOMAIN defaultElectronGoogleOAuth2Options

\* the value a caller's override gives an option it sets
OtherPort == 8080
OverrideValues ==
  [successRedirectURL |-> "https://example.org/done",
   loopbackInterfaceRedirectionPort |-> OtherPort,
   refocusAfterSuccess |-> FALSE]

\* a Partial<ElectronGoogleOAuth2Options> that sets the options in keys
OverridesOf(keys) == { [k \in K |-> OverrideValues[k]] : K \in SUBSET keys }
Overrides == OverridesOf(OptionKeys)
\* the overrides the authorization flows are explored under
FlowOverrides == OverridesOf({"refocusAfterSuccess"})

\* line 68: { ...defaultElectronGoogleOAuth2Options, ...options }
MergeDefaultsLast(defaults, ov) == defaults
MergeOptions(defaults, ov) ==
  [k \in DOMAIN defaults |-> IF k \in DOMAIN ov THEN ov[k] ELSE defaults[k]]

\* the scope lists callers pass to the constructor
ScopeNames == {"profile", "email", "calendar"}
ScopeLists == SeqsUpTo(ScopeNames, MaxScopes)
FlowScopes == << "calendar" >>

Includes(list, x) == \E i \in DOMAIN list : list[i] = x

\* lines 65-66: push 'profile', then 'email', when the list lacks it
PushIfMissing(list, x) == IF Includes(list, x) THEN list ELSE Append(list, x)
NormalizeScopesAlwaysPush(sc) == Append(Append(sc, "profile"), "email")
NormalizeScopes(sc) == PushIfMissing(PushIfMissing(sc, "profile"), "email")

\* line 126: the port every listener is asked to bind
ListenerPortPerAttempt(a) == options.loopbackInterfaceRedirectionPort + a
ListenerPort(a) == options.loopbackInterfaceRedirectionPort

\* line 122: `await this.server.close()` resumes once close() has resolved
CloseNotAwaited(l) == TRUE
CloseAwaited(l) == CloseResolved(l)

\* line 133: `await this.server.waitForRedirection()` resumes once it settled
WaitNotAwaited(w) == TRUE
WaitAwaited(w) == w.st \in {"resolved", "rejected"}

\* line 133: a rejected wait leaves the async function with that rejection
WaitRejectionAsUnknown(w) == ThrownError("Malformed", <<"Unknown">>)
WaitRejectionSwallowed(w) == [kind |-> "Completed", type |-> "value", val |-> <<>>]
WaitRejection(w) == Canceled

\* lines 74-76: a 'tokens' event of the client is re-emitted as it is
RelayNothing(events, tokens) == events
RelayTokens(events, tokens) == Append(events, tokens)

\* lines 162-169: a rejected getToken is handed on as it is (no catch)
ExchangeRejectionWrapped(e) == [kind |-> "ExchangeFailed", type |-> "Error", val |-> <<"Unknown">>]
ExchangeRejection(e) == [kind |-> "ExchangeFailed", type |-> "ExchangeError", val |-> <<e>>]

\* line 162: the .then callback runs only for a fulfilled authorization code
ExchangeOnAnyResult(o) == TRUE
ExchangeOnCode(o) == o.kind = "Code"

\* ---------------------------------------------------------------- URLs
\* A text is a sequence of pieces.  A piece is a run of unreserved
\* characters or one reserved character; lvl counts how many times the
\* piece has been percent-encoded ("%3A" is ":" at lvl 1, "%253A" at 2).
Text(pieces) == [i \in DOMAIN pieces |-> [lvl |-> 0, ch |-> pieces[i]]]

ReservedChars == {":", "/", "?", "=", "&", " ", "%"}

\* querystring.escape: every reserved character is percent-encoded, and
\* an encoded piece, which holds a "%", is encoded once more
EscapePiece(t) ==
  IF t.lvl = 0 /\ t.ch \notin ReservedChars THEN t ELSE [t EXCEPT !.lvl = @ + 1]
\* the encoding of encodeURI, which keeps the URL delimiters
EscapeKeepingDelimiters(text) ==
  [i \in DOMAIN text |->
     IF text[i].lvl = 0 /\ text[i].ch \notin {" ", "%"} THEN text[i]
     ELSE [text[i] EXCEPT !.lvl = @ + 1]]
Escape(text) == [i \in DOMAIN text |-> EscapePiece(text[i])]

\* querystring.stringify of the pairs << key, value text >>, in order
RECURSIVE Stringify(_)
Stringify(ps) ==
  IF ps = << >> THEN << >>
  ELSE LET head == Text(<< ps[1][1], "=" >>) \o Escape(ps[1][2])
       IN  IF Len(ps) = 1 THEN head
           ELSE head \o Text(<< "&" >>) \o Stringify(Tail(ps))

\* line 72 and line 88: `http://127.0.0.1:${port}/callback`
RedirectUri(port) ==
  Text(<< "http", ":", "/", "/", "127.0.0.1", ":", ToString(port), "/", "callback" >>)

\* the scope array as the client sends it: joined with spaces
RECURSIVE JoinScopes(_)
JoinScopes(sc) ==
  IF sc = << >> THEN << >>
  ELSE IF Len(sc) = 1 THEN Text(<< sc[1] >>)
  ELSE Text(<< sc[1], " " >>) \o JoinScopes(Tail(sc))

\* OAuth2Client.generateAuthUrl: the endpoint, "?", and the stringified
\* options, to which the client adds response_type and client_id
ClientAuthUrl(accessType, sc, redirect) ==
  Text(<< "https", ":", "/", "/", "accounts.google.com", "/", "o", "/",
          "oauth2", "/", "v2", "/", "auth", "?" >>) \o
  Stringify(<< << "access_type", Text(<< accessType >>) >>,
               << "scope", JoinScopes(sc) >>,
               << "redirect_uri", redirect >>,
               << "response_type", Text(<< "code" >>) >>,
               << "client_id", Text(<< "client-id" >>) >> >>)

\* lines 91-94: the AddSession page with the URL as its continue parameter
AddSessionUrl(url) ==
  Text(<< "https", ":", "/", "/", "accounts.google.com", "/", "AddSession", "?" >>)
  \o Stringify(<< << "continue", url >> >>)

\* no URL has been generated yet
NoUrl == [force |-> FALSE, url |-> << >>]

\* lines 57-77: the coordinator constructed with scopes sc and options ov
Constructed(sc, ov) ==
  /\ callerScopes = sc
  /\ override = ov
  /\ scopes = NormalizeScopes(sc)
  /\ options = MergeOptions(defaultElectronGoogleOAuth2Options, ov)
  /\ redirectUri = RedirectUri(MergeOptions(defaultElectronGoogleOAuth2Options, ov)
                                  .loopbackInterfaceRedirectionPort)
  /\ generated = NoUrl
  /\ refreshed = << >>
  /\ relayed = << >>
  /\ setCalls = << >>

\* no call has been made yet
InitAttempts ==
  /\ server = Null
  /\ credentials = NoCredentials
  /\ started = 0
  /\ pc = [a \in Attempts |-> "idle"]
  /\ mode = [a \in Attempts |-> "unset"]
  /\ target = [a \in Attempts |-> Null]
  /\ outcome = [a \in Attempts |-> NoOutcome]
  /\ exchanged = [a \in Attempts |-> <<>>]
  /\ published = [a \in Attempts |-> <<>>]
  /\ returned = [a \in Attempts |-> <<>>]
  /\ credSet = [a \in Attempts |-> <<>>]
  /\ settles = [a \in Attempts |-> 0]
  /\ opened = [a \in Attempts |-> 0]
  /\ refocused = [a \in Attempts |-> 0]
  /\ lst = [l \in Attempts |-> "none"]
  /\ lport = [l \in Attempts |-> 0]
  /\ wait = [l \in Attempts |-> NoWait]

InitFlow ==
  /\ \E ov \in FlowOverrides : Constructed(FlowScopes, ov)
  /\ InitAttempts

Init ==
  /\ InitFlow
  /\ xq = <<>>
  /\ xout = NoOutcome

\* line 136: `this.server = null` once the wait has resolved
ServerKeptAfterWait(a) == server
ServerAfterWait(a) == Null

\* lines 145-149: reached only when the redirect gave a code (lines 138-143
\* throw otherwise); the windows are shown when the option is set
RefocusRegardlessOfOption(o) == o.kind = "Code"
RefocusRequested(o) == o.kind = "Code" /\ options.refocusAfterSuccess

\* the attempt's promise settles with o
Settle(a, o) ==
  /\ pc' = [pc EXCEPT ![a] = "done"]
  /\ outcome' = [outcome EXCEPT ![a] = o]
  /\ settles' = [settles EXCEPT ![a] = @ + 1]

\* the same with the browser opened before the listener is constructed
StartListenerOpensFirst(a, extBusy) ==
  IF PortFree(ListenerPort(a), extBusy)
  THEN /\ lst' = [lst EXCEPT ![a] = "listening"]
       /\ lport' = [lport EXCEPT ![a] = ListenerPort(a)]
       /\ wait' = [wait EXCEPT ![a] = PendingWait]
       /\ server' = a
       /\ opened' = [opened EXCEPT ![a] = @ + 1]
       /\ pc' = [pc EXCEPT ![a] = "awaitRedirect"]
       /\ UNCHANGED << outcome, settles >>
  ELSE /\ server' = Null
       /\ opened' = [opened EXCEPT ![a] = @ + 1]
       /\ Settle(a, PortUnavailable)
       /\ UNCHANGED << lst, lport, wait >>

\* lines 125-133: construct the listener, open the browser, start waiting.
\* A constructor that fails to bind throws before `this.server` is assigned
\* and before the browser is opened.  extBusy tells whether another process
\* holds the port at that moment.
StartListener(a, extBusy) ==
  IF PortFree(ListenerPort(a), extBusy)
  THEN /\ lst' = [lst EXCEPT ![a] = "listening"]
       /\ lport' = [lport EXCEPT ![a] = ListenerPort(a)]
       /\ wait' = [wait EXCEPT ![a] = PendingWait]
       /\ server' = a
       /\ opened' = [opened EXCEPT ![a] = @ + 1]
       /\ pc' = [pc EXCEPT ![a] = "awaitRedirect"]
       /\ UNCHANGED << outcome, settles >>
  ELSE /\ server' = Null
       /\ Settle(a, PortUnavailable)
       /\ UNCHANGED << lst, lport, wait, opened >>

\* The promise attempt a awaits (line 120 or line 133) has settled, so the
\* rest of its function is queued as a promise job.
Resumable(a) ==
  \/ pc[a] = "awaitClose" /\ CloseResolved(target[a])
  \/ pc[a] = "awaitRedirect" /\ wait[a].st \in {"resolved", "rejected"}

\* lines 104-124 and 159-161: a caller starts an attempt; the function runs
\* up to its first await.  The caller's code runs as a task of its own or
\* in reaction to a settled attempt, in both cases after the promise jobs
\* queued by a listener event have run.
Call ==
  LET a == started + 1 IN
  /\ started < MaxAttempts
  /\ \A b \in Attempts : ~Resumable(b)
  /\ started' = a
  /\ IF server # Null
     THEN /\ lst' = CloseCalled(server)
          /\ target' = [target EXCEPT ![a] = server]
          /\ pc' = [pc EXCEPT ![a] = "awaitClose"]
          /\ UNCHANGED << server, outcome, settles, lport, wait, opened >>
     ELSE /\ \E extBusy \in BOOLEAN : StartListener(a, extBusy)
          /\ target' = target
  /\ UNCHANGED << options, credentials, mode, exchanged, returned, published,
                  credSet, refocused, xq, xout, clientVars >>

\* lines 122-133: the attempt resumes after `await this.server.close()`
ResumeAfterClose(a) ==
  /\ pc[a] = "awaitClose"
  /\ CloseAwaited(target[a])
  /\ \E extBusy \in BOOLEAN : StartListener(a, extBusy)
  /\ UNCHANGED << options, credentials, started, mode, target, exchanged,
                  returned, published, credSet, refocused, xq, xout, clientVars >>

\* a returned authorization code resolves getAuthorizationCode, or is
\* handed to getToken by the .then callback of openAuthWindowAndGetTokens
CodeReturned(a, m, code) ==
  /\ mode' = [mode EXCEPT ![a] = m]
  /\ IF m = "tokens"
     THEN /\ exchanged' = [exchanged EXCEPT ![a] = Append(@, code)]
          /\ pc' = [pc EXCEPT ![a] = "exchanging"]
          /\ UNCHANGED << outcome, settles >>
     ELSE /\ Settle(a, [kind |-> "Completed", type |-> "value", val |-> code])
          /\ exchanged' = exchanged

\* lines 133-151 and 162-164: the attempt resumes after the wait settled
ResumeAfterWait(a) ==
  /\ pc[a] = "awaitRedirect"
  /\ WaitAwaited(wait[a])
  /\ IF wait[a].st = "rejected"
     THEN /\ Settle(a, WaitRejection(wait[a]))
          /\ UNCHANGED << server, refocused, exchanged, mode >>
     ELSE LET o == Extract(wait[a].val) IN
          /\ server' = ServerAfterWait(a)
          /\ refocused' = [refocused EXCEPT ![a] =
                        IF RefocusRequested(o) THEN @ + 1 ELSE @]
          /\ IF ExchangeOnCode(o)
             THEN \E m \in Modes : CodeReturned(a, m, o.val)
             ELSE /\ Settle(a, o)
                  /\ UNCHANGED << exchanged, mode >>
  /\ UNCHANGED << options, credentials, started, target, returned, published,
                  credSet, opened, lst, lport, wait, xq, xout, clientVars >>

\* lines 74-76 and 165-168: getToken fulfils; the client emits 'tokens',
\* the coordinator re-emits it, stores the credentials and resolves
ExchangeResolve(a, tokens) ==
  /\ pc[a] = "exchanging"
  /\ returned' = [returned EXCEPT ![a] = Append(@, <<"tokens", tokens>>)]
  /\ published' = [published EXCEPT ![a] = RelayTokens(@, tokens)]
  /\ credentials' = tokens
  /\ credSet' = [credSet EXCEPT ![a] = Append(@, tokens)]
  /\ Settle(a, [kind |-> "Completed", type |-> "value", val |-> <<tokens>>])
  /\ UNCHANGED << options, server, started, mode, target, exchanged, opened,
                  refocused, lst, lport, wait, xq, xout, clientVars >>

\* lines 163-169: getToken rejects
ExchangeReject(a, e) ==
  /\ pc[a] = "exchanging"
  /\ returned' = [returned EXCEPT ![a] = Append(@, <<"error", e>>)]
  /\ Settle(a, ExchangeRejection(e))
  /\ UNCHANGED << options, server, credentials, started, mode, target,
                  exchanged, published, credSet, opened, refocused, lst,
                  lport, wait, xq, xout, clientVars >>

\* spec.md 4.1: a request on the callback path resolves the wait with its
\* URL and the listener closes itself
Redirect(l, q) ==
  /\ lst[l] = "listening"
  /\ wait[l].st = "pending"
  /\ lst' = [lst EXCEPT ![l] = "closed"]
  /\ wait' = [wait EXCEPT ![l] = ResolvedWait(q)]
  /\ UNCHANGED << coordVars, lport, xq, xout >>

\* spec.md 4.1: close() completes: the socket is released and a wait that
\* is still pending settles as canceled
ListenerClosed(l) ==
  /\ lst[l] = "closing"
  /\ lst' = [lst EXCEPT ![l] = "closed"]
  /\ wait' = [wait EXCEPT ![l] = IF @.st = "pending" THEN CanceledWait ELSE @]
  /\ UNCHANGED << coordVars, lport, xq, xout >>

\* the steps of the coordinator and its listeners, with the redirects the
\* provider sends and the results getToken gives drawn from the given sets
\* lines 84-97: generateAuthUrl(forceAddSession), a call of the host
UrlFor(forceAddSession) ==
  LET url == ClientAuthUrl("offline", scopes,
                           RedirectUri(options.loopbackInterfaceRedirectionPort))
  IN  IF forceAddSession THEN AddSessionUrl(url) ELSE url

GenerateAuthUrl(forceAddSession) ==
  /\ generated' = [force |-> forceAddSession, url |-> UrlFor(forceAddSession)]
  /\ UNCHANGED << configVars, refreshed, relayed, setCalls, server, credentials,
                  started, pc, mode,
                  target, outcome, exchanged, published, returned, credSet,
                  settles, opened, refocused, listenerVars, xq, xout >>

\* OAuth2Client.setCredentials: the client keeps the bundle it is given
SetCredentialsOnce(old, tokens) == IF old = NoCredentials THEN tokens ELSE old
SetCredentials(old, tokens) == tokens

\* lines 172-174: setTokens(tokens), a call of the host
SetTokens(tokens) ==
  /\ Len(setCalls) < MaxSetCalls
  /\ credentials' = SetCredentials(credentials, tokens)
  /\ setCalls' = Append(setCalls, [given |-> tokens, read |-> credentials'])
  /\ UNCHANGED << configVars, generated, refreshed, relayed, server, started, pc, mode,
                  target, outcome, exchanged, published, returned, credSet,
                  settles, opened, refocused, listenerVars, xq, xout >>

\* lines 74-76: the client refreshes its tokens outside any attempt, keeps
\* the refreshed bundle and emits 'tokens', which the listener registered
\* in the constructor re-emits
TokenRefresh(tokens) ==
  /\ Len(refreshed) < MaxRefresh
  /\ refreshed' = Append(refreshed, tokens)
  /\ credentials' = tokens
  /\ relayed' = RelayTokens(relayed, tokens)
  /\ UNCHANGED << configVars, generated, setCalls, server, started, pc, mode,
                  target, outcome, exchanged, published, returned, credSet,
                  settles, opened, refocused, listenerVars, xq, xout >>

NextOn(redirects, bundles, errors) ==
  \/ Call
  \/ \E a \in Attempts : ResumeAfterClose(a)
  \/ \E a \in Attempts : ResumeAfterWait(a)
  \/ \E a \in Attempts, t \in bundles : ExchangeResolve(a, t)
  \/ \E a \in Attempts, e \in errors : ExchangeReject(a, e)
  \/ \E l \in Attempts, q \in redirects : Redirect(l, q)
  \/ \E l \in Attempts : ListenerClosed(l)

Next == NextOn(FlowQueries, Bundles, ExchangeErrors)

Spec == Init /\ [][Next]_vars

\* The same steps under the scheduling of the event loop: every continuation
\* that is ready runs, and a close that was begun completes.  The values
\* carried by redirects and exchange results play no part in scheduling, so
\* a redirect without parameters, a redirect with a code, one bundle and one
\* exchange error are kept.
FairNext ==
  NextOn({ <<>>, << <<"code", "v1">> >> }, {"t1"}, {"e1"})

FairSpec ==
  /\ Init
  /\ [][FairNext]_vars
  /\ \A a \in Attempts : WF_vars(ResumeAfterClose(a))
  /\ \A a \in Attempts : WF_vars(ResumeAfterWait(a))
  /\ \A l \in Attempts : WF_vars(ListenerClosed(l))

\* ------------------------------------------- extraction on its own
ExtractStep ==
  /\ xout = NoOutcome
  /\ xout' = Extract(xq)
  /\ UNCHANGED << coordVars, listenerVars, xq >>

NextQuery ==
  /\ xout # NoOutcome
  /\ xq' \in Queries
  /\ xout' = NoOutcome
  /\ UNCHANGED << coordVars, listenerVars >>

NextExtract == ExtractStep \/ NextQuery

InitExtract ==
  /\ InitFlow
  /\ xq \in Queries
  /\ xout = NoOutcome

SpecExtract == InitExtract /\ [][NextExtract]_vars

\* The constructor and generateAuthUrl on their own: the coordinator is
\* constructed with every scope list and every override, and the host
\* generates authorization URLs.
InitConfig ==
  /\ \E sc \in ScopeLists, ov \in Overrides : Constructed(sc, ov)
  /\ InitAttempts
  /\ xq = << >>
  /\ xout = NoOutcome

NextConfig == \E forceAddSession \in BOOLEAN : GenerateAuthUrl(forceAddSession)

SpecConfig == InitConfig /\ [][NextConfig]_vars

\* The flows with the host storing tokens and the client refreshing them
\* at any moment, over MaxSideFlows calls.
BoundedFlows ==
  /\ NextOn({ << >>, << <<"code", "v1">> >> }, {"t1"}, {"e1"})
  /\ started' <= MaxSideFlows

NextTokens ==
  \/ BoundedFlows
  \/ \E tokens \in Bundles : SetTokens(tokens)
  \/ \E tokens \in Bundles : TokenRefresh(tokens)

SpecTokens == Init /\ [][NextTokens]_vars

\* The flows and generateAuthUrl of a coordinator constructed with every
\* override of the options, over MaxSideFlows calls.
InitOptions ==
  /\ \E ov \in Overrides : Constructed(FlowScopes, ov)
  /\ InitAttempts
  /\ xq = << >>
  /\ xout = NoOutcome

NextOptions ==
  \/ BoundedFlows
  \/ \E forceAddSession \in BOOLEAN : GenerateAuthUrl(forceAddSession)

SpecOptions == InitOptions /\ [][NextOptions]_vars

\* ================================================================ claims

\* the attempt has resumed after `await this.server.close()`
PastClose(a) == pc[a] \notin {"idle", "awaitClose"}

C2_CloseBeforeBind ==
  \A a \in Attempts :
    (target[a] # Null /\ PastClose(a)) => lst[target[a]] = "closed"

\* C2 witness: the second flow's listener is listening and the first
\* session, open when the second flow started, has been closed under its wait.
C2_Witness ==
  \E a \in Attempts :
    /\ target[a] # Null
    /\ lst[a] = "listening"
    /\ wait[target[a]] = CanceledWait

\* C3: an attempt whose listener is closed while it is still waiting for the
\* redirect eventually settles, with the canceled condition of the listener,
\* which no Denied, Malformed or ExchangeFailed failure carries.
C3_CanceledSettles ==
  /\ \A a \in Attempts :
       (pc[a] = "awaitRedirect" /\ lst[a] = "closed" /\ wait[a] = CanceledWait)
         ~> (pc[a] = "done" /\ outcome[a].kind = "UserCanceled"
                            /\ outcome[a].type = "Canceled")
  /\ [](\A a \in Attempts :
         outcome[a].kind \in {"Denied", "Malformed", "ExchangeFailed"}
           => outcome[a].type # "Canceled")

\* C3 witness: a superseded attempt has settled as canceled.
C3_Witness ==
  \E a, b \in Attempts :
    /\ target[b] = a
    /\ pc[a] = "done"
    /\ outcome[a] = Canceled

\* parameter k occurs in query q
HasParam(q, k) == \E i \in 1..Len(q) : q[i][1] = k

\* the positions of parameter k in query q
Occurrences(q, k) == {i \in 1..Len(q) : q[i][1] = k}

\* parameter k occurs in q with a non-empty value, or more than once
HasValue(q, k) ==
  \/ \E i \in Occurrences(q, k) : q[i][2] # ""
  \/ Cardinality(Occurrences(q, k)) >= 2

\* vs lists the values of parameter k in q in their order of appearance
ListsValues(vs, q, k) ==
  /\ Len(vs) = Cardinality(Occurrences(q, k))
  /\ \A i \in Occurrences(q, k) :
       vs[Cardinality({j \in Occurrences(q, k) : j <= i})] = q[i][2]

\* C4 as stated: a query with an `error` parameter gives Denied, otherwise
\* one with a `code` parameter gives Code with that value, otherwise
\* Malformed.
C4_TableByPresence ==
  xout # NoOutcome =>
    IF HasParam(xq, "error") THEN xout.kind = "Denied"
    ELSE IF HasParam(xq, "code")
         THEN xout.kind = "Code" /\ ListsValues(xout.val, xq, "code")
         ELSE xout.kind = "Malformed"

\* C4 amended: the table holds with "has the parameter" read as "has it
\* with a non-empty value, or more than once": then `error` gives Denied
\* whether or not `code` is there, otherwise `code` gives Code with exactly
\* the value(s) of `code`, otherwise the outcome is Malformed.
C4_TableByValue ==
  xout # NoOutcome =>
    /\ xout.kind \in {"Denied", "Code", "Malformed"}
    /\ IF HasValue(xq, "error") THEN xout.kind = "Denied"
       ELSE IF HasValue(xq, "code")
            THEN xout.kind = "Code" /\ ListsValues(xout.val, xq, "code")
            ELSE xout.kind = "Malformed"

\* C4 witness: a redirect with both an error and a code was extracted as
\* Denied.
C4_Witness ==
  /\ HasValue(xq, "error")
  /\ HasValue(xq, "code")
  /\ xout.kind = "Denied"

\* C5: the reason of a Denied failure is the error_description when the
\* redirect has one and the error value otherwise.
C5_ReasonFallsBackToError ==
  \A a \in Attempts :
    (pc[a] = "done" /\ outcome[a].kind = "Denied") =>
      outcome[a].val =
        IF HasParam(wait[a].val, "error_description")
        THEN ParamValues(wait[a].val, "error_description")
        ELSE ParamValues(wait[a].val, "error")

\* the attempt has resumed after its wait resolved with a redirect whose
\* extraction gives one of the kinds
Extracted(a, kinds) ==
  /\ pc[a] \notin {"idle", "awaitClose", "awaitRedirect"}
  /\ wait[a].st = "resolved"
  /\ Extract(wait[a].val).kind \in kinds

\* C6: when a flow started by openAuthWindowAndGetTokens captures a code and
\* getToken returns a bundle, getToken was called once, with that code, the
\* bundle was stored with setCredentials, the tokens event was published
\* once, with that bundle, and the attempt is Completed with that bundle.
C6_CompletedFlow ==
  \A a \in Attempts : \A t \in Bundles :
    returned[a] = << <<"tokens", t>> >> =>
      /\ exchanged[a] = << ParamValues(wait[a].val, "code") >>
      /\ Extracted(a, {"Code"})
      /\ credSet[a] = <<t>>
      /\ published[a] = <<t>>
      /\ pc[a] = "done"
      /\ outcome[a] = [kind |-> "Completed", type |-> "value", val |-> <<t>>]

\* C6 witness: a tokens flow has completed with a bundle that is the
\* client's current credentials.
C6_Witness ==
  \E a \in Attempts :
    /\ mode[a] = "tokens"
    /\ outcome[a].kind = "Completed"
    /\ returned[a] = << <<"tokens", credentials>> >>

\* C7: an attempt whose redirect yields Denied or Malformed is Failed with
\* that reason, never called getToken, published no tokens event and never
\* called setCredentials (it leaves the credentials as they are).
C7_FailedWithoutExchange ==
  \A a \in Attempts :
    Extracted(a, {"Denied", "Malformed"}) =>
      /\ pc[a] = "done"
      /\ outcome[a] = Extract(wait[a].val)
      /\ outcome[a].type = "Error"
      /\ exchanged[a] = <<>>
      /\ returned[a] = <<>>
      /\ published[a] = <<>>
      /\ credSet[a] = <<>>

\* C7 witness: one attempt failed as Denied and another as Malformed, after
\* an earlier flow had stored credentials.
C7_Witness ==
  /\ credentials # NoCredentials
  /\ \E a, b \in Attempts :
       /\ outcome[a].kind = "Denied"
       /\ outcome[b].kind = "Malformed"

\* C8: when getToken rejects, the attempt is Failed with exactly that error,
\* getToken was called once only, and setCredentials was not called, so the
\* attempt leaves the credentials as they are.
C8_ExchangeFailedVerbatim ==
  \A a \in Attempts : \A e \in ExchangeErrors :
    (returned[a] # <<>> /\ returned[a][1] = <<"error", e>>) =>
      /\ pc[a] = "done"
      /\ outcome[a].kind = "ExchangeFailed"
      /\ outcome[a].val = <<e>>
      /\ outcome[a].type = "ExchangeError"
      /\ Len(exchanged[a]) = 1
      /\ Len(returned[a]) = 1
      /\ credSet[a] = <<>>
      /\ published[a] = <<>>

\* C8 witness: an exchange was rejected while credentials of an earlier
\* flow were in place.
C8_Witness ==
  /\ credentials # NoCredentials
  /\ \E a \in Attempts : outcome[a].kind = "ExchangeFailed"

\* C9: a settled attempt has no live listener: the listener created for it
\* is closed and its port released.
C9_SettledReleasesListener ==
  \A a \in Attempts : pc[a] = "done" => ~Alive(a)

\* C9 witness: attempts have settled by a captured redirect and by
\* cancellation, and their listeners are closed.
C9_Witness ==
  \E a, b \in Attempts :
    /\ pc[a] = "done" /\ outcome[a].kind = "UserCanceled" /\ lst[a] = "closed"
    /\ pc[b] = "done" /\ outcome[b].kind = "Completed" /\ lst[b] = "closed"

Appended == SubSeq(scopes, Len(callerScopes) + 1, Len(scopes))

\* C11: after construction the scope list contains "profile" and "email";
\* the caller's entries keep their order and positions, each of the two
\* the caller omitted is appended after them, "profile" before "email",
\* and one the caller supplied is not added again.
C11_ScopesNormalized ==
  /\ Includes(scopes, "profile")
  /\ Includes(scopes, "email")
  /\ Len(scopes) >= Len(callerScopes)
  /\ SubSeq(scopes, 1, Len(callerScopes)) = callerScopes
  /\ Appended =
       (IF Includes(callerScopes, "profile") THEN << >> ELSE << "profile" >>)
       \o (IF Includes(callerScopes, "email") THEN << >> ELSE << "email" >>)

\* a caller whose full-length list has "email" but not "profile" gets
\* "profile" alone appended
C11_Witness ==
  /\ Includes(callerScopes, "email")
  /\ ~Includes(callerScopes, "profile")
  /\ Len(callerScopes) = MaxScopes
  /\ scopes = Append(callerScopes, "profile")

\* ------------------------------------------------------------------ C12
\* What the receiver of a URL reads from it: the value of query parameter
\* key runs from its "=" to the next unencoded "&" and is percent-decoded
\* once.
Piece(c) == [lvl |-> 0, ch |-> c]
UnescapePiece(t) == IF t.lvl > 0 THEN [t EXCEPT !.lvl = @ - 1] ELSE t
Unescape(text) == [i \in DOMAIN text |-> UnescapePiece(text[i])]

ParamStarts(u, key) ==
  { i \in 2..(Len(u) - 1) :
      /\ u[i] = Piece(key)
      /\ u[i + 1] = Piece("=")
      /\ u[i - 1] \in {Piece("?"), Piece("&")} }

ParamEnd(u, i) ==
  LET ends == { j \in (i + 2)..Len(u) : u[j] = Piece("&") }
  IN  IF ends = {} THEN Len(u)
      ELSE (CHOOSE j \in ends : \A j2 \in ends : j <= j2) - 1

HasOneParam(u, key) == Cardinality(ParamStarts(u, key)) = 1

ParamValue(u, key) ==
  LET i == CHOOSE i \in ParamStarts(u, key) : TRUE
  IN  Unescape(SubSeq(u, i + 2, ParamEnd(u, i)))

\* the redirect URI of the configured port, written out
LoopbackCallback ==
  Text(<< "http", ":", "/", "/", "127.0.0.1", ":",
          ToString(options.loopbackInterfaceRedirectionPort), "/", "callback" >>)

\* the scope list as one space-separated text
RECURSIVE SpaceSeparated(_)
SpaceSeparated(sc) ==
  IF sc = << >> THEN << >>
  ELSE IF Len(sc) = 1 THEN << Piece(sc[1]) >>
  ELSE << Piece(sc[1]), Piece(" ") >> \o SpaceSeparated(Tail(sc))

\* u asks for offline access, the normalized scopes and the loopback
\* redirect URI of the configured port
IsBaseUrl(u) ==
  /\ HasOneParam(u, "access_type")
  /\ ParamValue(u, "access_type") = << Piece("offline") >>
  /\ HasOneParam(u, "scope")
  /\ ParamValue(u, "scope") = SpaceSeparated(scopes)
  /\ HasOneParam(u, "redirect_uri")
  /\ ParamValue(u, "redirect_uri") = LoopbackCallback

AddSessionPrefix ==
  Text(<< "https", ":", "/", "/", "accounts.google.com", "/", "AddSession", "?",
          "continue", "=" >>)

\* C12: generateAuthUrl(false) returns the base authorization URL, which
\* asks for access_type=offline, the normalized scopes and redirect_uri
\* http://127.0.0.1:<port>/callback; generateAuthUrl(true) returns
\* https://accounts.google.com/AddSession?continue= followed by the
\* URL-encoding of the base URL, and decoding the continue parameter gives
\* back the base URL.
C12_AuthUrlForms ==
  generated # NoUrl =>
    IF generated.force
    THEN /\ Len(generated.url) > Len(AddSessionPrefix)
         /\ SubSeq(generated.url, 1, Len(AddSessionPrefix)) = AddSessionPrefix
         /\ HasOneParam(generated.url, "continue")
         /\ ParamEnd(generated.url, Len(AddSessionPrefix) - 1) = Len(generated.url)
         /\ ParamValue(generated.url, "continue") = UrlFor(FALSE)
         /\ IsBaseUrl(ParamValue(generated.url, "continue"))
    ELSE /\ generated.url = UrlFor(FALSE)
         /\ IsBaseUrl(generated.url)

\* an AddSession URL generated for three scopes and a port of the caller
C12_Witness ==
  /\ generated.force
  /\ generated.url # << >>
  /\ Len(scopes) = 3
  /\ options.loopbackInterfaceRedirectionPort # DefaultPort

\* ------------------------------------------------------------------ C13
\* what an attempt, its listener and the browser can observe
flowVars == << server, started, pc, mode, target, outcome, exchanged, published,
              returned, credSet, settles, opened, refocused, lst, lport, wait >>

\* C13: setTokens(bundle) makes the bundle the client's credentials, so a
\* read right after it returns the bundle unchanged, in any flow state;
\* it starts no listener, opens no browser and changes no attempt.
C13_SetTokensStores ==
  [][Len(setCalls') > Len(setCalls) =>
       /\ setCalls'[Len(setCalls')].read = setCalls'[Len(setCalls')].given
       /\ credentials' = setCalls'[Len(setCalls')].given
       /\ UNCHANGED flowVars]_vars

\* tokens stored while an attempt waits for its redirect, replacing the
\* bundle an earlier attempt's exchange had stored
C13_Witness ==
  /\ \E a \in Attempts : pc[a] = "awaitRedirect"
  /\ \E a \in Attempts : credSet[a] = << "t1" >>
  /\ refreshed = << >>
  /\ setCalls # << >>
  /\ credentials = "t2"

\* ------------------------------------------------------------------ C14
\* C14: for each 'tokens' event of the client outside an attempt the
\* coordinator publishes exactly one 'tokens' event with the same bundle,
\* and it publishes none otherwise; the flow state, the listener session
\* and the pending attempts are left as they were.
C14_RefreshRelayedOnce ==
  [][/\ refreshed' # refreshed =>
          /\ relayed' = Append(relayed, refreshed'[Len(refreshed')])
          /\ UNCHANGED flowVars
     /\ relayed' # relayed => refreshed' # refreshed]_vars

\* a refresh relayed while a listener is up and its attempt is waiting
C14_Witness ==
  /\ refreshed = << "t2" >>
  /\ relayed = << "t2" >>
  /\ server # Null
  /\ lst[server] = "listening"
  /\ pc[server] = "awaitRedirect"

C16_RefocusAfterExchange ==
  \A a \in Attempts :
    /\ refocused[a] > 0 =>
         /\ options.refocusAfterSuccess
         /\ outcome[a].kind = "Completed"
         /\ mode[a] = "tokens" => returned[a] # << >>
    /\ outcome[a].kind \in {"Denied", "Malformed", "ExchangeFailed", "UserCanceled"}
         => refocused[a] = 0

\* C16 amended: refocus is requested once, when the redirect has given an
\* authorization code and refocusAfterSuccess is enabled, before any
\* token exchange and whether or not the exchange then succeeds; an
\* attempt whose redirect gave no code (Denied, Malformed), that was
\* canceled or got no listener requests none, and with the option
\* disabled none is ever requested.
C16_RefocusOnCode ==
  \A a \in Attempts :
    /\ refocused[a] =
         (IF options.refocusAfterSuccess /\ Extracted(a, {"Code"}) THEN 1 ELSE 0)
    /\ outcome[a].kind \in {"Denied", "Malformed", "UserCanceled", "PortUnavailable"}
         => refocused[a] = 0
    /\ ~options.refocusAfterSuccess => refocused[a] = 0

\* with the option enabled: one attempt refocused and its exchange then
\* failed, another was denied and requested no refocus
C16_Witness ==
  /\ options.refocusAfterSuccess
  /\ \E a, b \in Attempts :
       /\ outcome[a].kind = "ExchangeFailed"
       /\ refocused[a] = 1
       /\ outcome[b].kind = "Denied"
       /\ refocused[b] = 0

\* ------------------------------------------------------------------ C17
\* the base authorization URL inside the URL generated last
GeneratedBase ==
  IF generated.force THEN ParamValue(generated.url, "continue") ELSE generated.url

\* C17: the options stay the defaults with the caller's override laid over
\* them, and one port, the configured one, is in the redirect URI the
\* client was given, in the redirect_uri of every generated URL and under
\* every listener.
C17_OneConfiguredPort ==
  /\ \A k \in OptionKeys :
       options[k] = (IF k \in DOMAIN override THEN override[k]
                     ELSE defaultElectronGoogleOAuth2Options[k])
  /\ redirectUri = LoopbackCallback
  /\ generated # NoUrl =>
       /\ HasOneParam(GeneratedBase, "redirect_uri")
       /\ ParamValue(GeneratedBase, "redirect_uri") = LoopbackCallback
  /\ \A l \in Attempts :
       lst[l] # "none" => lport[l] = options.loopbackInterfaceRedirectionPort

\* a port of the caller's choice: a listener is bound to it after an
\* earlier one was, and an AddSession URL has been generated
C17_Witness ==
  /\ "loopbackInterfaceRedirectionPort" \in DOMAIN override
  /\ options.loopbackInterfaceRedirectionPort = OtherPort
  /\ generated.force
  /\ generated.url # << >>
  /\ \E l, l2 \in Attempts :
       /\ lst[l] = "closed"
       /\ lst[l2] = "listening"
       /\ lport[l2] = OtherPort

\* ------------------------------------------------------------------ C18
\* C18: an attempt never sets `server` to null while the field refers to
\* the listener of another attempt, so every listening listener is the
\* one `server` refers to, where the next call finds and closes it.
C18_LiveListenerReachable ==
  \A l \in Attempts : lst[l] = "listening" => server = l

====
